---- MODULE Spec2Model ----
(***************************************************************************)
(* Diagnostics support of WarpX:                                           *)
(*   - ablastr::coarsen::sample::Interp   (Source/ablastr/coarsen/sample.H) *)
(*   - RandomFilter, UniformFilter, ParserFilter, GeometryFilter           *)
(*                          (Source/Particles/Filter/FilterFunctors.H)     *)
(* Both are pure per-cell / per-particle functors.  SpecCoarsen draws the  *)
(* arguments of one Interp call in its initial state and applies Interp in *)
(* one step; SpecFilter constructs one filter and calls its operator() on  *)
(* one particle.  The model is the 3D build (AMREX_SPACEDIM = 3).  Values  *)
(* of type amrex::Real are exact rationals: the weights of Interp are      *)
(* 1, 1/2, 1/4 or 1/8, so rounding plays no part in what is stated here.   *)
(***************************************************************************)
EXTENDS Integers, FiniteSets, Sequences, TLC

VARIABLES
    \* ---- coarsening: the arguments and the result of one Interp call
    sf,         \* staggering of the source (fine) array, per axis
    sc,         \* staggering of the destination (coarse) array, per axis
    cr,         \* coarsening ratio, per axis
    ic,         \* destination index <<i, j, k>>
    comp,       \* component of arr_src
    c,          \* value returned by Interp, a rational <<num, den>>
    reads,      \* the (ii,jj,kk) at which arr_src was read by the call
    cpc,        \* "ready" before the call, "done" after it
    \* ---- particle filters: one filter object, one particle, one call
    filt,       \* the filter object (its kind and its members)
    p,          \* the particle handed to operator()
    engine,     \* number of draws taken from the random stream so far
    ret,        \* value returned by operator()
    touched,    \* the particle fields operator() read
    draw,       \* numerator of the value amrex::Random returned, -1 if none
    parser_args,\* arguments handed to m_function_partparser, <<>> if none
    pc          \* "ready", "done", or "trap" (integer division by zero)

cvars == <<sf, sc, cr, ic, comp, c, reads, cpc>>
fvars == <<filt, p, engine, draw, ret, touched, parser_args, pc>>
vars  == <<sf, sc, cr, ic, comp, c, reads, cpc,
           filt, p, engine, draw, ret, touched, parser_args, pc>>

(***************************************************************************)
(* Bounds                                                                  *)
(***************************************************************************)
MaxCr    == 3      \* coarsening ratios 1..MaxCr
MaxIdx   == 2      \* destination indices -1..MaxIdx (-1 is a ghost cell)
MaxN     == 2      \* coarse cells per axis of a destination box, 1..MaxN
MaxId    == 6      \* particle ids 0..MaxId
MaxStride == 3     \* strides -2..MaxStride
DrawDen  == 4      \* draws are n/DrawDen, fractions are m/DrawDen
MaxDraws == 2      \* draws already taken from the stream, 0..MaxDraws
MaxPos   == 2      \* particle coordinates -1..MaxPos
MaxBox   == 1      \* corners of the RealBox 0..MaxBox
MaxMom   == 1      \* particle momenta -c..MaxMom*c
MaxMass  == 3      \* species masses 1..MaxMass
MaxTime  == 1      \* physical times 0..MaxTime

\* Axis l of the code (0, 1, 2) is position l+1 of a tuple here.
Axes == 1..3

(***************************************************************************)
(* Exact arithmetic on amrex::Real values: a rational is <<num, den>>,     *)
(* den > 0, in lowest terms.                                               *)
(***************************************************************************)
Abs(n) == IF n < 0 THEN -n ELSE n

RECURSIVE GCD(_, _)
GCD(a, b) == IF b = 0 THEN a ELSE GCD(b, a % b)

Norm(n, d) ==
    LET s == IF d < 0 THEN -1 ELSE 1
        g == GCD(Abs(n), Abs(d))
    IN  <<(s * n) \div g, (s * d) \div g>>

R(n) == <<n, 1>>

RDiv(a, b) == Norm(a[1] * b[2], a[2] * b[1])

RSub(a, b) == Norm(a[1] * b[2] - b[1] * a[2], a[2] * b[2])

(***************************************************************************)
(* ablastr::coarsen::sample::Interp                                        *)
(***************************************************************************)
Stag    == {0, 1}
Ratios  == 1..MaxCr
DstIdx  == -1..MaxIdx
Comps   == {0, 1}

\* The contents of arr_src: a fixed field that is neither constant nor
\* linear, so that means over different index sets differ.
arr_src(ii, jj, kk, n) == ii * ii + 3 * jj * jj * jj + 5 * kk * kk + 7 * ii * jj + 11 * kk + 13 * n

\* np with a fault: a cell-centered source is averaged over cr points.
np_crpoints(sfl, scl, crl) ==
    IF crl = 1 THEN 1 + Abs(sfl - scl)
               ELSE crl * (1 - sfl) + sfl

\* Number of fine points sampled along one axis.
np(sfl, scl, crl) ==
    IF crl = 1 THEN 1 + Abs(sfl - scl)
               ELSE 2 - sfl

\* idx_min with a fault: the no-coarsening start index lacks the (1-sf) factor.
idx_min_nostag(icl, sfl, scl, crl) ==
    IF crl = 1 THEN icl - scl
               ELSE icl * crl + (crl \div 2) * (1 - scl) - (1 - sfl)

\* idx_min with a fault: the coarsening start index lacks the half-ratio shift.
idx_min_nohalf(icl, sfl, scl, crl) ==
    IF crl = 1 THEN icl - scl * (1 - sfl)
               ELSE icl * crl - (1 - sfl)

\* Starting fine index along one axis.
idx_min(icl, sfl, scl, crl) ==
    IF crl = 1 THEN icl - scl * (1 - sfl)
               ELSE icl * crl + (crl \div 2) * (1 - scl) - (1 - sfl)

\* The fine indices the loop visits along axis l: idx_min + 0 .. np-1.
AxisPoints(a_sf, a_sc, a_cr, a_ic, l) ==
    { idx_min(a_ic[l], a_sf[l], a_sc[l], a_cr[l]) + ref :
        ref \in 0..(np(a_sf[l], a_sc[l], a_cr[l]) - 1) }

\* The (ii, jj, kk) visited by the triple loop.
InterpPoints(a_sf, a_sc, a_cr, a_ic) ==
    { <<ii, jj, kk>> : ii \in AxisPoints(a_sf, a_sc, a_cr, a_ic, 1),
                       jj \in AxisPoints(a_sf, a_sc, a_cr, a_ic, 2),
                       kk \in AxisPoints(a_sf, a_sc, a_cr, a_ic, 3) }

RECURSIVE SumOver(_, _)
SumOver(S, n) ==
    IF S = {} THEN 0
    ELSE LET e == CHOOSE x \in S : TRUE
         IN  arr_src(e[1], e[2], e[3], n) + SumOver(S \ {e}, n)

\* c = sum over the visited points of wx*wy*wz*arr_src(ii,jj,kk,comp),
\* wx = 1/numx, wy = 1/numy, wz = 1/numz.
Interp(a_sf, a_sc, a_cr, a_ic, a_comp) ==
    LET numx == np(a_sf[1], a_sc[1], a_cr[1])
        numy == np(a_sf[2], a_sc[2], a_cr[2])
        numz == np(a_sf[3], a_sc[3], a_cr[3])
    IN  Norm(SumOver(InterpPoints(a_sf, a_sc, a_cr, a_ic), a_comp),
             numx * numy * numz)

NoFilter == [kind |-> "none"]
NoParticle == [id |-> 0, pos |-> <<0, 0, 0>>, rdata |-> <<0, 0, 0>>]

CoarsenIdle ==
    /\ sf = <<0, 0, 0>> /\ sc = <<0, 0, 0>> /\ cr = <<1, 1, 1>>
    /\ ic = <<0, 0, 0>> /\ comp = 0 /\ c = <<0, 1>> /\ reads = {} /\ cpc = "idle"

FilterIdle ==
    /\ filt = NoFilter /\ p = NoParticle /\ engine = 0 /\ draw = -1 /\ ret = FALSE
    /\ touched = {} /\ parser_args = <<>> /\ pc = "idle"

InitCoarsen ==
    /\ sf \in Stag \X Stag \X Stag
    /\ sc \in Stag \X Stag \X Stag
    /\ cr \in Ratios \X Ratios \X Ratios
    /\ ic \in DstIdx \X DstIdx \X DstIdx
    /\ comp \in Comps
    /\ c = <<0, 1>>
    /\ reads = {}
    /\ cpc = "ready"
    /\ FilterIdle

\* One call of Interp(arr_src, sf, sc, cr, i, j, k, comp).
InterpCall ==
    /\ cpc = "ready"
    /\ c' = Interp(sf, sc, cr, ic, comp)
    /\ reads' = InterpPoints(sf, sc, cr, ic)
    /\ cpc' = "done"
    /\ UNCHANGED <<sf, sc, cr, ic, comp>>
    /\ UNCHANGED fvars

NextCoarsen == InterpCall

SpecCoarsen == InitCoarsen /\ [][NextCoarsen]_vars

(***************************************************************************)
(* Particles/Filter/FilterFunctors.H                                       *)
(***************************************************************************)
PhysConst_c == 299792458

\* The constructors: the members of the four filter objects.
RandomFilter(a_is_active, a_fraction) ==
    [kind |-> "random", m_is_active |-> a_is_active, m_fraction |-> a_fraction]

UniformFilter(a_is_active, a_stride) ==
    [kind |-> "uniform", m_is_active |-> a_is_active, m_stride |-> a_stride]

\* t_new is WarpX::GetInstance().gett_new(0) at construction.
ParserFilter(a_is_active, a_filter_parser, a_mass, t_new) ==
    [kind |-> "parser", m_is_active |-> a_is_active,
     m_function_partparser |-> a_filter_parser, m_mass |-> a_mass,
     m_t |-> t_new, m_units |-> "WarpX"]

GeometryFilter(a_is_active, a_domain) ==
    [kind |-> "geometry", m_is_active |-> a_is_active, m_domain |-> a_domain]

\* a % b of C: the quotient truncates toward zero (b # 0).
CMod(a, b) ==
    LET r == Abs(a) % Abs(b)
    IN  IF a < 0 THEN -r ELSE r

\* RandomDraws with a fault: the draw is taken before m_is_active is looked at.
RandomDraws_always(is_active) == 1

\* RandomFilter::operator(): || evaluates amrex::Random(engine) only when
\* !m_is_active is false.
RandomDraws(is_active) == IF is_active THEN 1 ELSE 0

\* RandomSelect with a fault: selects on draw <= fraction.
RandomSelect_le(is_active, fraction, d) == (~is_active) \/ (d <= fraction)

\* RandomFilter::operator(): d and fraction are numerators over DrawDen.
RandomSelect(is_active, fraction, d) == (~is_active) \/ (d < fraction)

\* UniformSelect with a fault: selects the ids one past a multiple of the stride.
UniformSelect_shift(is_active, stride, id) ==
    (~is_active) \/ (CMod(id, stride) = CMod(1, stride))

\* UniformFilter::operator(), stride # 0 when active.
UniformSelect(is_active, stride, id) == (~is_active) \/ (CMod(id, stride) = 0)

\* GeometrySelect with a fault: the box is open, a particle on its boundary
\* is rejected.
GeometrySelect_open(is_active, dom, pos) ==
    IF ~is_active THEN TRUE
    ELSE ~(\/ (pos[1] <= dom.lo[1]) \/ (pos[1] >= dom.hi[1])
           \/ (pos[2] <= dom.lo[2]) \/ (pos[2] >= dom.hi[2])
           \/ (pos[3] <= dom.lo[3]) \/ (pos[3] >= dom.hi[3]))

\* GeometryFilter::operator(); AMREX_D_TERM keeps its three terms (3D).
GeometrySelect(is_active, dom, pos) ==
    IF ~is_active THEN TRUE
    ELSE ~(\/ (pos[1] < dom.lo[1]) \/ (pos[1] > dom.hi[1])
           \/ (pos[2] < dom.lo[2]) \/ (pos[2] > dom.hi[2])
           \/ (pos[3] < dom.lo[3]) \/ (pos[3] > dom.hi[3]))

\* ParserArgs with a fault: the momenta are divided by the mass in both unit
\* modes.
ParserArgs_massalways(f, q) ==
    LET ux == RDiv(RDiv(R(q.rdata[1]), R(PhysConst_c)), R(f.m_mass))
        uy == RDiv(RDiv(R(q.rdata[2]), R(PhysConst_c)), R(f.m_mass))
        uz == RDiv(RDiv(R(q.rdata[3]), R(PhysConst_c)), R(f.m_mass))
    IN  <<R(f.m_t), R(q.pos[1]), R(q.pos[2]), R(q.pos[3]), ux, uy, uz>>

\* ParserFilter::operator(), active branch: the arguments t,x,y,z,ux,uy,uz
\* handed to m_function_partparser.
ParserArgs(f, q) ==
    LET x   == q.pos[1]
        y   == q.pos[2]
        z   == q.pos[3]
        ux0 == RDiv(R(q.rdata[1]), R(PhysConst_c))
        uy0 == RDiv(R(q.rdata[2]), R(PhysConst_c))
        uz0 == RDiv(R(q.rdata[3]), R(PhysConst_c))
        ux  == IF f.m_units = "SI" THEN RDiv(ux0, R(f.m_mass)) ELSE ux0
        uy  == IF f.m_units = "SI" THEN RDiv(uy0, R(f.m_mass)) ELSE uy0
        uz  == IF f.m_units = "SI" THEN RDiv(uz0, R(f.m_mass)) ELSE uz0
    IN  <<R(f.m_t), R(x), R(y), R(z), ux, uy, uz>>

\* The compiled expressions a ParserExecutor<7> may hold, and their value on
\* the arguments a = <<t, x, y, z, ux, uy, uz>>.
ParserExprs == {"1", "0", "x", "ux", "uy", "uz", "ux-1"}

ParserEval(e, a) ==
    CASE e = "1"    -> R(1)
      [] e = "0"    -> R(0)
      [] e = "x"    -> a[2]
      [] e = "ux"   -> a[5]
      [] e = "uy"   -> a[6]
      [] e = "uz"   -> a[7]
      [] e = "ux-1" -> RSub(a[5], R(1))

\* ParserFilter::operator(), active branch: the returned value.
ParserSelect(f, q) ==
    ParserEval(f.m_function_partparser, ParserArgs(f, q)) # R(0)

\* ---- the inputs
Fractions == 0..DrawDen
Draws     == 0..(DrawDen - 1)
Strides   == -2..MaxStride
Ids       == 0..MaxId
Coords    == -1..MaxPos
Corners   == 0..MaxBox
Momenta   == { k * PhysConst_c : k \in -1..MaxMom }
Masses    == 1..MaxMass
Times     == 0..MaxTime
ParserPos == {<<0, 0, 0>>, <<1, -1, 2>>}
RealBoxes ==
    { [lo |-> l, hi |-> h] :
        l \in Corners \X Corners \X Corners,
        h \in Corners \X Corners \X Corners }

UniformParticles  == { [NoParticle EXCEPT !.id = i] : i \in Ids }
GeometryParticles == { [NoParticle EXCEPT !.pos = x] : x \in Coords \X Coords \X Coords }
ParserParticles   ==
    { [NoParticle EXCEPT !.pos = x, !.rdata = u] :
        x \in ParserPos, u \in Momenta \X Momenta \X Momenta }

\* No filter constructed yet; the stream has served `engine` draws.
InitFilter ==
    /\ filt = NoFilter
    /\ p = NoParticle
    /\ engine \in 0..MaxDraws
    /\ draw = -1
    /\ ret = FALSE
    /\ touched = {}
    /\ parser_args = <<>>
    /\ pc = "new"
    /\ CoarsenIdle

\* RandomFilter::RandomFilter
ConstructRandom ==
    /\ pc = "new"
    /\ \E a \in BOOLEAN, f \in Fractions : filt' = RandomFilter(a, f)
    /\ pc' = "ready"
    /\ UNCHANGED <<p, engine, draw, ret, touched, parser_args>>
    /\ UNCHANGED cvars

\* UniformFilter::UniformFilter
ConstructUniform ==
    /\ pc = "new"
    /\ \E a \in BOOLEAN, s \in Strides : filt' = UniformFilter(a, s)
    /\ pc' = "ready"
    /\ UNCHANGED <<p, engine, draw, ret, touched, parser_args>>
    /\ UNCHANGED cvars

\* ParserFilter::ParserFilter
ConstructParser ==
    /\ pc = "new"
    /\ \E a \in BOOLEAN, e \in ParserExprs, m \in Masses, t \in Times :
         filt' = ParserFilter(a, e, m, t)
    /\ pc' = "ready"
    /\ UNCHANGED <<p, engine, draw, ret, touched, parser_args>>
    /\ UNCHANGED cvars

\* GeometryFilter::GeometryFilter
ConstructGeometry ==
    /\ pc = "new"
    /\ \E a \in BOOLEAN, b \in RealBoxes :
         /\ \A l \in Axes : b.lo[l] <= b.hi[l]
         /\ filt' = GeometryFilter(a, b)
    /\ pc' = "ready"
    /\ UNCHANGED <<p, engine, draw, ret, touched, parser_args>>
    /\ UNCHANGED cvars

\* RandomFilter::operator()
InvokeRandom ==
    /\ pc = "ready"
    /\ filt.kind = "random"
    /\ p' \in UniformParticles
    /\ \E d \in Draws :
         /\ ret' = RandomSelect(filt.m_is_active, filt.m_fraction, d)
         /\ engine' = engine + RandomDraws(filt.m_is_active)
         /\ draw' = IF RandomDraws(filt.m_is_active) = 1 THEN d ELSE -1
    /\ touched' = {}
    /\ pc' = "done"
    /\ UNCHANGED <<filt, parser_args>>
    /\ UNCHANGED cvars

\* UniformFilter::operator(); p.id() % 0 is undefined: the call traps or
\* returns either value.
InvokeUniform ==
    /\ pc = "ready"
    /\ filt.kind = "uniform"
    /\ p' \in UniformParticles
    /\ IF filt.m_is_active /\ filt.m_stride = 0
       THEN \/ (pc' = "trap" /\ ret' = FALSE)
            \/ (pc' = "done" /\ ret' \in BOOLEAN)
       ELSE /\ ret' = UniformSelect(filt.m_is_active, filt.m_stride, p'.id)
            /\ pc' = "done"
    /\ touched' = IF filt.m_is_active THEN {"id"} ELSE {}
    /\ UNCHANGED <<filt, engine, draw, parser_args>>
    /\ UNCHANGED cvars

\* Assignment to the public member m_units of a ParserFilter.
SetUnits ==
    /\ pc = "ready"
    /\ filt.kind = "parser"
    /\ filt.m_units = "WarpX"
    /\ filt' = [filt EXCEPT !.m_units = "SI"]
    /\ UNCHANGED <<p, engine, draw, ret, touched, parser_args, pc>>
    /\ UNCHANGED cvars

\* ParserFilter::operator()
InvokeParser ==
    /\ pc = "ready"
    /\ filt.kind = "parser"
    /\ p' \in ParserParticles
    /\ IF ~filt.m_is_active
       THEN /\ ret' = TRUE
            /\ touched' = {}
            /\ parser_args' = <<>>
       ELSE /\ ret' = ParserSelect(filt, p')
            /\ touched' = {"pos", "rdata"}
            /\ parser_args' = ParserArgs(filt, p')
    /\ pc' = "done"
    /\ UNCHANGED <<filt, engine, draw>>
    /\ UNCHANGED cvars

\* GeometryFilter::operator()
InvokeGeometry ==
    /\ pc = "ready"
    /\ filt.kind = "geometry"
    /\ p' \in GeometryParticles
    /\ ret' = GeometrySelect(filt.m_is_active, filt.m_domain, p'.pos)
    /\ touched' = IF filt.m_is_active THEN {"pos"} ELSE {}
    /\ pc' = "done"
    /\ UNCHANGED <<filt, engine, draw, parser_args>>
    /\ UNCHANGED cvars

NextFilter ==
    \/ ConstructRandom
    \/ ConstructUniform
    \/ ConstructParser
    \/ ConstructGeometry
    \/ InvokeRandom
    \/ InvokeUniform
    \/ SetUnits
    \/ InvokeParser
    \/ InvokeGeometry

SpecFilter == InitFilter /\ [][NextFilter]_vars

(***************************************************************************)
(* Properties of the particle filters                                      *)
(***************************************************************************)
\* A step that runs operator() of the filter to its return.
Returns == pc = "ready" /\ pc' # "ready"

\* C3: operator() of an inactive filter, of any of the four kinds, returns
\* true and has no effect: no draw is taken from the random stream (the
\* draw counter is unchanged), the expression is not evaluated and no field
\* of the particle is read.
C3_InactiveNoEffect ==
    [][ (Returns /\ ~filt.m_is_active) =>
            /\ pc' = "done"
            /\ ret' = TRUE
            /\ engine' = engine
            /\ draw' = -1
            /\ touched' = {}
            /\ parser_args' = <<>> ]_vars

C3_Witness ==
    /\ pc = "done" /\ filt.kind = "random" /\ ~filt.m_is_active
    /\ filt.m_fraction = 0 /\ engine = 1 /\ ret = TRUE

\* C4: an active UniformFilter with positive stride selects a particle of
\* nonnegative id iff id mod stride = 0 (stride 3 over ids 0..6 selects
\* exactly 0, 3, 6); with stride 1 it selects every particle, as an
\* inactive UniformFilter of any stride does.
C4_UniformStride ==
    (pc = "done" /\ filt.kind = "uniform") =>
        /\ (filt.m_is_active /\ filt.m_stride > 0 /\ p.id >= 0) =>
               (ret <=> (p.id % filt.m_stride = 0))
        /\ (filt.m_is_active /\ filt.m_stride = 3 /\ p.id \in 0..6) =>
               (ret <=> (p.id \in {0, 3, 6}))
        /\ (filt.m_is_active /\ filt.m_stride = 1) => ret
        /\ (~filt.m_is_active) => ret

C4_Witness ==
    /\ pc = "done" /\ filt.kind = "uniform" /\ filt.m_is_active
    /\ filt.m_stride = 3 /\ p.id = 6 /\ ret = TRUE

\* C5: a UniformFilter with a non-positive stride fails fast: its
\* operator() never reads the id for the modulo and never returns a
\* selection decision (stated for the active filter, where the stride is
\* used).
C5_FailFast ==
    (filt.kind = "uniform" /\ filt.m_is_active /\ filt.m_stride <= 0) =>
        (pc # "done" /\ "id" \notin touched)

C7_GeometryInclusive ==
    (pc = "done" /\ filt.kind = "geometry" /\ filt.m_is_active) =>
        (ret <=> \A a \in Axes :
                    /\ filt.m_domain.lo[a] <= p.pos[a]
                    /\ p.pos[a] <= filt.m_domain.hi[a])

C7_Witness ==
    /\ pc = "done" /\ filt.kind = "geometry" /\ filt.m_is_active
    /\ filt.m_domain.lo = <<0, 0, 0>> /\ filt.m_domain.hi = <<1, 1, 1>>
    /\ p.pos = <<0, 1, 1>> /\ ret = TRUE

\* The momentum arguments the filter hands to the expression in mode u.
MomentumArgs(u) ==
    LET a == ParserArgs([filt EXCEPT !.m_units = u], p)
    IN  <<a[5], a[6], a[7]>>

\* C8 (as stated): for any species mass other than 1 the two unit modes
\* hand different momentum arguments to the expression.
C8_Original ==
    (pc = "done" /\ filt.kind = "parser" /\ filt.m_is_active /\ filt.m_mass # 1) =>
        /\ parser_args # <<>>
        /\ MomentumArgs("SI") # MomentumArgs("WarpX")

\* The arguments of the call, stated on the particle: t is m_t, x, y, z are
\* the position, and momentum argument i is rdata[i]/c in WarpX mode and
\* rdata[i]/c/mass in SI mode (n/d = k/mass as n*mass = k*d).
C8_ArgsOK ==
    /\ Len(parser_args) = 7
    /\ parser_args[1] = R(filt.m_t)
    /\ \A i \in 1..3 : parser_args[1 + i] = R(p.pos[i])
    /\ \A i \in 1..3 :
          LET k == p.rdata[i] \div PhysConst_c
              n == parser_args[4 + i][1]
              d == parser_args[4 + i][2]
          IN  /\ d > 0
              /\ IF filt.m_units = "SI" THEN n * filt.m_mass = k * d
                                        ELSE n = k * d
              /\ (MomentumArgs("SI")[i] # MomentumArgs("WarpX")[i])
                    <=> (filt.m_mass # 1 /\ k # 0)
    /\ ret <=> (ParserEval(filt.m_function_partparser, parser_args) # R(0))

\* C8 (amended): a ParserFilter is constructed from (active, expression,
\* mass) in WarpX mode; SI mode is set by assigning m_units afterwards.  An
\* active call hands t, x, y, z unchanged and each momentum divided by c only
\* in WarpX mode, by c and by the mass in SI mode, so the two modes differ on
\* a momentum argument exactly when mass # 1 and that momentum is nonzero.
C8_UnitModes ==
    /\ [][ (pc = "new" /\ filt'.kind = "parser") => filt'.m_units = "WarpX" ]_vars
    /\ [] ((pc = "done" /\ filt.kind = "parser" /\ filt.m_is_active) => C8_ArgsOK)

C8_Witness ==
    /\ pc = "done" /\ filt.kind = "parser" /\ filt.m_is_active
    /\ filt.m_units = "SI" /\ filt.m_mass = 2
    /\ filt.m_function_partparser = "ux"
    /\ p.rdata = <<PhysConst_c, 0, -PhysConst_c>>
    /\ parser_args[5] = <<1, 2>> /\ parser_args[6] = <<0, 1>>
    /\ parser_args[7] = <<-1, 2>>
    /\ ret = TRUE

(***************************************************************************)
(* Properties of Interp                                                    *)
(***************************************************************************)
\* The fine indices read along axis l by the call.
AxisReads(l) == { r[l] : r \in reads }

SetMin(S) == CHOOSE x \in S : \A y \in S : x <= y
SetMax(S) == CHOOSE x \in S : \A y \in S : x >= y

\* The index set the no-coarsening case is to read along axis l.
NeighbourSet(l) ==
    IF sf[l] = sc[l] THEN {ic[l]}
    ELSE IF sf[l] = 0 THEN {ic[l] - 1, ic[l]}
                      ELSE {ic[l], ic[l] + 1}

NeighbourBox ==
    { <<ii, jj, kk>> : ii \in NeighbourSet(1), jj \in NeighbourSet(2),
                       kk \in NeighbourSet(3) }

\* C1: with ratio 1 on every axis Interp reads, per axis, exactly {ic} when
\* sf = sc, {ic-1, ic} when sf = 0 and sc = 1, {ic, ic+1} when sf = 1 and
\* sc = 0, and returns the unweighted mean of the source over that box; with
\* equal staggering on all axes it returns the source value at (i,j,k).
C1_RatioOneStencil ==
    (cpc = "done" /\ cr = <<1, 1, 1>>) =>
        /\ reads = NeighbourBox
        /\ c = Norm(SumOver(NeighbourBox, comp), Cardinality(NeighbourBox))
        /\ (sf = sc => c = <<arr_src(ic[1], ic[2], ic[3], comp), 1>>)

C1_Witness ==
    /\ cpc = "done" /\ cr = <<1, 1, 1>>
    /\ sf[1] = 0 /\ sc[1] = 1 /\ sf[2] = 1 /\ sc[2] = 0 /\ sf[3] = sc[3]
    /\ ic[1] = -1 /\ comp = 1
    /\ Cardinality(reads) = 4

\* C2 (as stated): on an axis with ratio > 1 Interp averages over 1 fine
\* point when the source is face-centered and over cr fine points when it is
\* cell-centered.
C2_Original ==
    cpc = "done" =>
        \A l \in Axes : cr[l] > 1 =>
            Cardinality(AxisReads(l)) = (IF sf[l] = 1 THEN 1 ELSE cr[l])

\* C2 (amended): on an axis with ratio > 1 Interp averages over exactly 1
\* fine point when the source is face-centered and over exactly 2 contiguous
\* fine points when it is cell-centered, whatever the ratio and the
\* destination staggering.
C2_TwoPoints ==
    cpc = "done" =>
        \A l \in Axes : cr[l] > 1 =>
            /\ Cardinality(AxisReads(l)) = (IF sf[l] = 1 THEN 1 ELSE 2)
            /\ AxisReads(l) = SetMin(AxisReads(l))..SetMax(AxisReads(l))

C2_Witness ==
    /\ cpc = "done"
    /\ cr[1] = 3 /\ sf[1] = 0 /\ Cardinality(AxisReads(1)) = 2
    /\ cr[2] = 2 /\ sf[2] = 1 /\ Cardinality(AxisReads(2)) = 1

\* C9: along every axis the centroid of the fine points read coincides with
\* the position of the destination point; in half-fine-cell units
\* 2*idx_min + (np-1) + (1-sf) = cr*(2*ic + 1 - sc).
C9_Centroid ==
    cpc = "done" =>
        \A l \in Axes :
            2 * SetMin(AxisReads(l)) + (Cardinality(AxisReads(l)) - 1) + (1 - sf[l])
                = cr[l] * (2 * ic[l] + 1 - sc[l])

\* C10: when the destination cell lies in a box of N coarse cells without
\* ghost cells (0..N-1+sc) over a fine box of cr*N cells (valid fine indices
\* 0..cr*N-1+sf), every fine index read lies in the valid range grown by one
\* cell, and in the valid range itself unless sf = 0 and sc = 1.
C10_ReadsInRange ==
    cpc = "done" =>
        \A l \in Axes : \A N \in 1..MaxN :
            ic[l] \in 0..(N - 1 + sc[l]) =>
                /\ AxisReads(l) \subseteq -1..(cr[l] * N + sf[l])
                /\ ~(sf[l] = 0 /\ sc[l] = 1) =>
                        AxisReads(l) \subseteq 0..(cr[l] * N - 1 + sf[l])

C10_Witness ==
    /\ cpc = "done"
    /\ sf[1] = 0 /\ sc[1] = 1 /\ cr[1] = 3 /\ ic[1] = 1 /\ 3 \in AxisReads(1)
    /\ sf[2] = 0 /\ sc[2] = 0 /\ cr[2] = 3 /\ ic[2] = 1 /\ AxisReads(2) = {3, 4}
    /\ sf[3] = 1 /\ sc[3] = 0 /\ cr[3] = 1 /\ ic[3] = 0 /\ AxisReads(3) = {0, 1}

====
